---- MODULE Spec2Model ----
(***************************************************************************)
(* State-machine model of the whisper-web-app browser client               *)
(* (src/frontend/script.js): the upload queue with the picker and drag and *)
(* drop, the transcription job (transcribeFile and its fetch / json /      *)
(* setTimeout continuations), the result presenter, the startup health     *)
(* probe, the banners and the microphone recording session.                *)
(*                                                                         *)
(* JavaScript runs one task at a time, so every action below is one task   *)
(* of the event loop: an event handler up to its first await, or the       *)
(* continuation of an await, or one timer / recorder callback.             *)
(*                                                                         *)
(* Strings built by template literals are modelled as sequences of tokens  *)
(* (the literal pieces and the interpolated values); the empty string is   *)
(* the empty sequence.                                                     *)
(***************************************************************************)
EXTENDS Naturals, Sequences, FiniteSets

\* ------------------------------------------------------------------ bounds
\* Number of transcribeFile calls that pass the `if (!file) return` guard.
MaxJobs == 2
\* Number of startRecording calls (clicks on the start control).
MaxStarts == 2
\* Longest file selection handed over by the picker or a drop.
MaxFiles == 3
\* Number of banners on screen beyond which no further drop without audio
\* files is taken.
MaxBanners == 2
\* Number of clicks on the copy control.
MaxCopies == 2

\* --------------------------------------------------------------- constants
API_BASE_URL == "/api"

Placeholder == <<"No transcription available">>

\* Values of the language selector.
Languages == {"auto", "en", "zh"}

\* A byte count is written in base 1024, most significant digit first and
\* without leading zeros (0 is the empty sequence): file sizes go beyond
\* 1024^4, further than 32-bit integers reach.
\* 2,048,000 = 1 * 1024^2 + 977 * 1024 + 0.
Size2048000 == <<1, 977, 0>>
\* 1024^4 bytes.
SizeOneTiB == <<1, 0, 0, 0, 0>>

\* Files the user may pick or drop: two audio files, one of them empty, and
\* a large file that is not audio.  A MIME type is the sequence of its
\* top-level part (with the slash) and its subtype.
FilePool ==
  { [name |-> <<"a.wav">>, type |-> <<"audio/", "wav">>, size |-> Size2048000,
     content |-> <<>>],
    [name |-> <<"b.mp3">>, type |-> <<"audio/", "mpeg">>, size |-> <<>>,
     content |-> <<>>],
    [name |-> <<"disk.img">>, type |-> <<"application/", "octet-stream">>,
     size |-> SizeOneTiB, content |-> <<>>] }

\* Sequences over S of length at most n.
RECURSIVE SeqsUpTo(_, _)
SeqsUpTo(S, n) ==
  IF n = 0 THEN {<<>>}
  ELSE LET shorter == SeqsUpTo(S, n - 1)
       IN  shorter \cup {Append(s, x) : s \in {t \in shorter : Len(t) = n - 1}, x \in S}

\* The FileLists of at most MaxFiles files a picker or a drop may hand over:
\* a FileList holds no file twice.
Selections ==
  {s \in SeqsUpTo(FilePool, MaxFiles) : \A i, j \in DOMAIN s : s[i] = s[j] => i = j}

\* What the remote service (or the network) may answer to POST /inference.
\* A rejected fetch carries the message of the error it rejects with.
FetchOutcomes ==
  { [rejected |-> TRUE,  status |-> 0,   statusText |-> "",
     message |-> <<"Failed to fetch">>],
    [rejected |-> FALSE, status |-> 200, statusText |-> "OK", message |-> <<>>],
    [rejected |-> FALSE, status |-> 404, statusText |-> "Not Found", message |-> <<>>],
    [rejected |-> FALSE, status |-> 500, statusText |-> "Internal Server Error",
     message |-> <<>>] }

\* No response yet.
NoResponse == [rejected |-> FALSE, status |-> 0, statusText |-> "", message |-> <<>>]

\* A response check that lets every status below 500 through.
ResponseOkBelow500(r) == r.status >= 200 /\ r.status < 500

\* Response.ok: the status is in the range 200-299.
ResponseOk(r) == r.status >= 200 /\ r.status <= 299

\* What response.json() may settle with: a rejection (the body is not JSON),
\* or a JSON value: null, an object without a text field, or an object whose
\* text field is a string (possibly empty).
JsonOutcomes ==
  { [rejected |-> TRUE,  isNull |-> FALSE, hasText |-> FALSE, text |-> <<>>,
     message |-> <<"Unexpected token < in JSON at position 0">>],
    [rejected |-> FALSE, isNull |-> TRUE,  hasText |-> FALSE, text |-> <<>>,
     message |-> <<>>],
    [rejected |-> FALSE, isNull |-> FALSE, hasText |-> FALSE, text |-> <<>>,
     message |-> <<>>],
    [rejected |-> FALSE, isNull |-> FALSE, hasText |-> TRUE,  text |-> <<>>,
     message |-> <<>>],
    [rejected |-> FALSE, isNull |-> FALSE, hasText |-> TRUE,
     text |-> <<"hello world">>, message |-> <<>>] }

NoData == [rejected |-> FALSE, isNull |-> FALSE, hasText |-> FALSE, text |-> <<>>,
           message |-> <<>>]

\* ---------------------------------------------------------------- state
VARIABLES
  uploadedFiles,        \* let uploadedFiles: the upload queue
  language,             \* languageSelect.value
  jobs,                 \* one record per transcribeFile call (its locals and where it is suspended)
  resultTimers,         \* job ids whose 500 ms setTimeout is pending, in firing order
  progressIntervals,    \* one record per animateProgress interval: its local progress, and whether it is still set
  windowProgressInterval, \* window.progressInterval (0: undefined)
  progressWidth,        \* progressFill.style.width, in percent
  currentTranscription, \* let currentTranscription
  resultText,           \* transcriptionResult.textContent
  resultError,          \* transcriptionResult.className carries 'error'
  display,              \* style.display of the elements the script shows and hides (TRUE: shown)
  faults,               \* number of exceptions that reached the event loop uncaught
  mediaRecorder,        \* let mediaRecorder: 0 (null), or the startRecording call that created it
  calls,                \* one record per startRecording call: where it is suspended, its stream and its recorder
  recordedChunks,       \* let recordedChunks: the fragments pushed, each named by the recorder that produced it
  recordingTimer,       \* let recordingTimer: 0 (null), or the id of the interval it holds
  recTimers,            \* ids of the updateRecordingTimer intervals that are set
  recordingStartTime,   \* let recordingStartTime: 0 (null), or the start it was taken at
  audioSrc,             \* recordedAudio.src: the fragments of the blob it plays
  banners,              \* messages of the showError banners on screen, oldest first
  fileListItems,        \* fileList.innerHTML: one item per queue entry shown (name, size label, index of its button)
  audioFileFiles,       \* audioFile.files: the selection the file input holds
  dragStore,            \* the drag in progress over the page: whether there is one, and the files it carries
  dragover,             \* uploadArea.classList contains 'dragover'
  health,               \* the startup call of checkServerHealth: where it is, and the answer on its way
  triggers,             \* log: clicks on a Transcribe button or on the use control that reached transcribeFile
  requests,             \* log: POST /inference requests handed to fetch
  copyBtnText,          \* copyBtn.textContent
  copyCalls,            \* one record per copyToClipboard call: whether its writeText promise is pending, and the text it was given
  copyTimers,           \* the label each pending 2 s timer of copyToClipboard will restore, in firing order
  clipboard             \* the text on the platform clipboard

jobVars == <<uploadedFiles, fileListItems, language, jobs, resultTimers, progressIntervals,
             windowProgressInterval, progressWidth, currentTranscription,
             resultText, resultError, faults>>

recVars == <<mediaRecorder, calls, recordedChunks, recordingTimer, recTimers,
             recordingStartTime, audioSrc>>

\* The file input, the drag in progress, the startup health probe and the
\* copy control.
copyVars == <<copyBtnText, copyCalls, copyTimers, clipboard>>

pageVars == <<audioFileFiles, dragStore, dragover, health, copyVars>>

\* The two logs.
logVars == <<triggers, requests>>

vars == <<jobVars, recVars, banners, display, pageVars, logVars>>

\* A job record: pc is where transcribeFile is suspended ("fetch": at the
\* await of fetch, "json": at the await of response.json(), "timer": its
\* 500 ms timer is pending, "done": it has run to its end);
\* selectedLanguage and data are its locals; body is the request on its way
\* to the service and response the answer on its way back.  arrivedAfter is
\* history that no action reads: the later-started jobs whose response had
\* already arrived when this job's response arrived.
\* A job that has run to its end keeps nothing.
DoneJob == [pc |-> "done", selectedLanguage |-> "", body |-> <<>>,
            response |-> NoResponse, data |-> NoData, arrivedAfter |-> {}]

\* ------------------------------------------------------- pure functions

\* Form data that carry the language field whatever the selection is.
BuildFormDataAlwaysLanguage(file, selectedLanguage) ==
  << <<"file", file>>, <<"response_format", "json">>,
     <<"language", selectedLanguage>> >>

\* formData of transcribeFile: the fields appended, in order.
BuildFormData(file, selectedLanguage) ==
  LET base == << <<"file", file>>, <<"response_format", "json">> >>
  IN  IF selectedLanguage # "auto"
      THEN Append(base, <<"language", selectedLanguage>>)
      ELSE base

\* A number interpolated into a template literal: its decimal digits.
Digit == <<"0", "1", "2", "3", "4", "5", "6", "7", "8", "9">>

RECURSIVE Decimal(_)
Decimal(n) ==
  IF n < 10 THEN <<Digit[n + 1]>>
  ELSE Append(Decimal(n \div 10), Digit[(n % 10) + 1])

\* `Server error: ${response.status} ${response.statusText}`
ServerErrorMessage(r) ==
  <<"Server error: ">> \o Decimal(r.status) \o <<" ", r.statusText>>

\* The text the catch block presents for an error with this message.
ErrorResultText(message) ==
  <<"Error: ">> \o message
    \o <<"\n\nMake sure the Whisper server is running on ", API_BASE_URL>>

\* data.text || 'No transcription available'
SuccessResultText(data) ==
  IF data.hasText /\ data.text # <<>> THEN data.text ELSE Placeholder

\* text.startsWith(prefix), on token sequences.
StartsWith(text, prefix) ==
  Len(text) >= Len(prefix) /\ SubSeq(text, 1, Len(prefix)) = prefix

\* A drop filter that keeps every file.
AllFiles(files) == files

\* The files of a drop that handleDrop keeps: those whose type starts with
\* 'audio/', in their order.
AudioFiles(files) == SelectSeq(files, LAMBDA f : StartsWith(f.type, <<"audio/">>))

\* const sizes = ['Bytes', 'KB', 'MB', 'GB']
sizes == <<"Bytes", "KB", "MB", "GB">>

\* A sequence backwards.
Reverse(s) == [n \in 1 .. Len(s) |-> s[Len(s) + 1 - n]]

\* m times a byte count whose digits come least significant first (m < 1024).
RECURSIVE Times(_, _, _)
Times(digits, m, carry) ==
  IF digits = <<>> THEN (IF carry = 0 THEN <<>> ELSE <<carry>>)
  ELSE LET x == Head(digits) * m + carry
       IN  <<x % 1024>> \o Times(Tail(digits), m, x \div 1024)

\* Math.floor(Math.log(bytes) / Math.log(k)) for bytes > 0: one less than
\* the number of base-1024 digits.
FloorLog1024(bytes) == Len(bytes) - 1

\* (bytes / Math.pow(k, i)).toFixed(2) for i = FloorLog1024(bytes), as a
\* number of hundredths: 100 * bytes without its i lowest digits, one more
\* when the highest digit left out is at least half of 1024 (toFixed rounds
\* to the nearest hundredth and a tie upwards; dividing by a power of two
\* is exact).
ToFixed2(bytes, i) ==
  LET p == Times(Reverse(bytes), 100, 0)
      whole == p[i + 1] + (IF Len(p) > i + 1 THEN p[i + 2] * 1024 ELSE 0)
  IN  whole + (IF i >= 1 /\ p[i] >= 512 THEN 1 ELSE 0)

\* parseFloat of a toFixed(2) string, as a string again: the trailing zeros
\* of the fraction, and the point of a whole number, are gone.
NumberText(hundredths) ==
  Decimal(hundredths \div 100)
    \o (IF hundredths % 100 = 0 THEN <<>>
        ELSE IF hundredths % 10 = 0 THEN <<".", Digit[((hundredths % 100) \div 10) + 1]>>
        ELSE <<".", Digit[((hundredths % 100) \div 10) + 1], Digit[(hundredths % 10) + 1]>>)

\* formatFileSize(bytes).  sizes[i] of an index past the array is undefined,
\* which the concatenation turns into the text "undefined".  The literal
\* '0 Bytes' is written as the three pieces the other branch would give it.
FormatFileSize(bytes) ==
  IF bytes = <<>> THEN <<"0", " ", "Bytes">>
  ELSE LET i == FloorLog1024(bytes)
       IN  NumberText(ToFixed2(bytes, i))
             \o <<" ", IF i + 1 \in DOMAIN sizes THEN sizes[i + 1] ELSE "undefined">>

\* displayFileList(files): the items it puts into the emptied file list,
\* each with the file's name, its size label and the index its Transcribe
\* button passes to transcribeFile.
DisplayFileList(files) ==
  [n \in 1 .. Len(files) |->
     [name |-> files[n].name, size |-> FormatFileSize(files[n].size), index |-> n - 1]]

\* `Warning: Cannot connect to Whisper server at ${API_BASE_URL}`
HealthWarning == <<"Warning: Cannot connect to Whisper server at ", API_BASE_URL>>

NoAudioMessage == <<"Please upload audio files only">>

\* The label the page gives the copy control, and the confirmation.
CopyLabel == "Copy"
\* (the emoji in front of the confirmation is left out)
CopiedLabel == "Copied!"

\* Values of Math.random() * 15, which lies in [0, 15), in whole percent.
Increments == {0, 14}

\* No drag is in progress.
NoDrag == [active |-> FALSE, files |-> <<>>]

\* ---------------------------------------------------------------- Init
\* The globals as declared, with the startup call of checkServerHealth at
\* its await of fetch.  The recording controls start as cancelRecording
\* resets them (start shown, the others hidden), the recording, progress
\* and result sections hidden and the file list shown.
Init ==
  /\ uploadedFiles = <<>>
  /\ language = "auto"
  /\ jobs = <<>>
  /\ resultTimers = <<>>
  /\ progressIntervals = <<>>
  /\ windowProgressInterval = 0
  /\ progressWidth = 0
  /\ currentTranscription = <<>>
  /\ resultText = <<>>
  /\ resultError = FALSE
  /\ display = [progressSection |-> FALSE, resultSection |-> FALSE,
                fileList |-> TRUE, recordingSection |-> FALSE,
                startRecord |-> TRUE, stopRecord |-> FALSE,
                playRecord |-> FALSE, useRecord |-> FALSE,
                recordingTimer |-> FALSE, recordedAudio |-> FALSE]
  /\ faults = 0
  /\ mediaRecorder = 0
  /\ calls = <<>>
  /\ recordedChunks = <<>>
  /\ recordingTimer = 0
  /\ recTimers = {}
  /\ recordingStartTime = 0
  /\ audioSrc = <<>>
  /\ banners = <<>>
  /\ fileListItems = <<>>
  /\ audioFileFiles = <<>>
  /\ dragStore = NoDrag
  /\ dragover = FALSE
  /\ health = [pc |-> "fetch", response |-> NoResponse]
  /\ triggers = 0
  /\ requests = 0
  /\ copyBtnText = CopyLabel
  /\ copyCalls = <<>>
  /\ copyTimers = <<>>
  /\ clipboard = <<>>

\* ------------------------------------------------------------- actions

\* The user changes the language selector.
SelectLanguage ==
  /\ \E l \in Languages : l # language /\ language' = l
  /\ UNCHANGED <<uploadedFiles, fileListItems, jobs, resultTimers, progressIntervals,
                 windowProgressInterval, progressWidth, currentTranscription,
                 resultText, resultError, display, faults, recVars, banners, pageVars, logVars>>

\* showError(message): a banner is added; its own 5 s timer removes it.
ShowError(message) == banners' = Append(banners, message)

\* The 5 s timer of the oldest banner fires (equal delays fire in order).
BannerTimerFires ==
  /\ banners # <<>>
  /\ banners' = Tail(banners)
  /\ UNCHANGED <<jobVars, pageVars, logVars, recVars, display>>

\* A handleFiles that adds the batch to the queue.
HandleFilesAppends(files) ==
  /\ uploadedFiles' = uploadedFiles \o files
  /\ fileListItems' = DisplayFileList(uploadedFiles \o files)

\* handleFiles(files)
HandleFiles(files) ==
  /\ uploadedFiles' = files
  /\ fileListItems' = DisplayFileList(files)

\* The user changes the selection of the file input (an emptied selection
\* is a cancelled dialog) and its change event runs handleFileSelect: the
\* selection replaces the queue, unfiltered; an empty one changes nothing.
HandleFileSelect ==
  /\ \E files \in Selections :
       /\ files # audioFileFiles
       /\ audioFileFiles' = files
       /\ IF Len(files) > 0 THEN HandleFiles(files)
          ELSE UNCHANGED <<uploadedFiles, fileListItems>>
  /\ UNCHANGED <<language, jobs, resultTimers, progressIntervals,
                 windowProgressInterval, progressWidth, currentTranscription,
                 resultText, resultError, display, faults, recVars, banners,
                 dragStore, dragover, health, logVars, copyVars>>

\* The user starts dragging files from outside over the page.
DragEnter ==
  /\ ~dragStore.active
  /\ \E files \in Selections : dragStore' = [active |-> TRUE, files |-> files]
  /\ UNCHANGED <<jobVars, recVars, banners, display, audioFileFiles, dragover,
                 health, logVars, copyVars>>

\* handleDragOver: the drag is over the upload area.
HandleDragOver ==
  /\ dragStore.active
  /\ ~dragover
  /\ dragover' = TRUE
  /\ UNCHANGED <<jobVars, recVars, banners, display, audioFileFiles, dragStore,
                 health, logVars, copyVars>>

\* handleDragLeave: the drag leaves the upload area.
HandleDragLeave ==
  /\ dragStore.active
  /\ dragover
  /\ dragover' = FALSE
  /\ UNCHANGED <<jobVars, recVars, banners, display, audioFileFiles, dragStore,
                 health, logVars, copyVars>>

\* handleDrop: the files are dropped on the upload area, which ends the
\* drag.  The audio files among them replace the queue; when there is none
\* the banner is shown.
HandleDrop ==
  /\ dragStore.active
  /\ dragover
  /\ Len(AudioFiles(dragStore.files)) > 0 \/ Len(banners) < MaxBanners
  /\ dragover' = FALSE
  /\ dragStore' = NoDrag
  /\ LET files == AudioFiles(dragStore.files)
     IN  IF Len(files) > 0
         THEN HandleFiles(files) /\ UNCHANGED banners
         ELSE ShowError(NoAudioMessage) /\ UNCHANGED <<uploadedFiles, fileListItems>>
  /\ UNCHANGED <<language, jobs, resultTimers, progressIntervals,
                 windowProgressInterval, progressWidth, currentTranscription,
                 resultText, resultError, display, faults, recVars,
                 audioFileFiles, health, logVars, copyVars>>

\* The state changes of transcribeFile(fileIndex) up to its first await, on
\* the queue `files`: showProgress, hideResult, the form data,
\* animateProgress and the fetch.
TranscribeFile(files, fileIndex, disp) ==
  LET id == Len(jobs) + 1
      selectedLanguage == language
  IN  /\ jobs' = Append(jobs, [pc |-> "fetch",
                               selectedLanguage |-> selectedLanguage,
                               body |-> BuildFormData(files[fileIndex + 1], selectedLanguage),
                               response |-> NoResponse,
                               data |-> NoData, arrivedAfter |-> {}])
      /\ progressWidth' = 0
      /\ display' = [disp EXCEPT !.progressSection = TRUE, !.resultSection = FALSE]
      /\ progressIntervals' = Append(progressIntervals, [progress |-> 0, set |-> TRUE])
      /\ windowProgressInterval' = id
      /\ requests' = requests + 1

\* The interval callback of animateProgress call i runs (every 300 ms while
\* the interval is set): its local progress grows, is capped at 90, where
\* the interval clears itself, and is written to the progress bar.
ProgressTick(i) ==
  /\ progressIntervals[i].set
  /\ \E inc \in Increments :
       LET progress == progressIntervals[i].progress + inc
       IN  /\ progressIntervals' =
                [progressIntervals EXCEPT
                   ![i] = IF progress > 90 THEN [progress |-> 90, set |-> FALSE]
                          ELSE [progress |-> progress, set |-> TRUE]]
           /\ progressWidth' = IF progress > 90 THEN 90 ELSE progress
  /\ UNCHANGED <<uploadedFiles, fileListItems, language, jobs, resultTimers,
                 windowProgressInterval, currentTranscription, resultText,
                 resultError, display, faults, recVars, banners, pageVars, logVars>>

\* A click on the Transcribe button of queue entry fileIndex.
TranscribeClick ==
  /\ display.fileList
  /\ Len(jobs) < MaxJobs
  /\ \E fileIndex \in 0 .. (Len(uploadedFiles) - 1) :
       TranscribeFile(uploadedFiles, fileIndex, display)
  /\ triggers' = triggers + 1
  /\ UNCHANGED <<uploadedFiles, fileListItems, language, resultTimers,
                 currentTranscription, resultText, resultError, faults, recVars,
                 banners, pageVars>>

\* showResult(text, isError) after hideProgress(), as the catch block does.
PresentError(message) ==
  /\ display' = [display EXCEPT !.progressSection = FALSE, !.resultSection = TRUE]
  /\ currentTranscription' = ErrorResultText(message)
  /\ resultText' = ErrorResultText(message)
  /\ resultError' = TRUE

\* The service answers the request of job j, or the network fails it: the
\* answer is on its way to the client.
ServiceAnswers(j) ==
  /\ jobs[j].pc = "fetch"
  /\ jobs[j].response = NoResponse
  /\ \E r \in FetchOutcomes :
       jobs' = [jobs EXCEPT ![j].response = r, ![j].body = <<>>]
  /\ UNCHANGED <<uploadedFiles, fileListItems, language, resultTimers, progressIntervals,
                 windowProgressInterval, progressWidth, currentTranscription,
                 resultText, resultError, display, faults, recVars, banners, pageVars, logVars>>

\* The later-started jobs whose response has arrived at the client.
ArrivedAmongLater(j) ==
  {b \in (j + 1) .. Len(jobs) : jobs[b].pc # "fetch"}

\* A job that sends its request again when the fetch rejects, once per
\* request slot left.
FetchSettlesRetries(j) ==
  /\ jobs[j].pc = "fetch"
  /\ jobs[j].response # NoResponse
  /\ LET r == jobs[j].response
     IN  IF r.rejected /\ requests < MaxJobs
         THEN /\ jobs' = [jobs EXCEPT ![j].response = NoResponse,
                                      ![j].body = BuildFormData(uploadedFiles[1],
                                                                jobs[j].selectedLanguage)]
              /\ requests' = requests + 1
              /\ UNCHANGED <<display, currentTranscription, resultText, resultError>>
         ELSE IF r.rejected \/ ~ResponseOk(r)
         THEN /\ PresentError(IF r.rejected THEN r.message ELSE ServerErrorMessage(r))
              /\ jobs' = [jobs EXCEPT ![j] = DoneJob]
              /\ UNCHANGED requests
         ELSE /\ jobs' = [jobs EXCEPT ![j].pc = "json",
                                      ![j].response = NoResponse,
                                      ![j].arrivedAfter = ArrivedAmongLater(j)]
              /\ UNCHANGED <<display, currentTranscription, resultText, resultError,
                             requests>>
  /\ UNCHANGED <<uploadedFiles, fileListItems, language, resultTimers,
                 progressIntervals, windowProgressInterval, progressWidth, faults,
                 recVars, banners, pageVars, triggers>>

\* The fetch of job j settles with the answer that has arrived: a rejection
\* or a non-ok response ends in the catch block, an ok response goes on to
\* await response.json().
FetchSettles(j) ==
  /\ jobs[j].pc = "fetch"
  /\ jobs[j].response # NoResponse
  /\ LET r == jobs[j].response
     IN  IF r.rejected
         THEN /\ PresentError(r.message)
              /\ jobs' = [jobs EXCEPT ![j] = DoneJob]
         ELSE IF ~ResponseOk(r)
         THEN /\ PresentError(ServerErrorMessage(r))
              /\ jobs' = [jobs EXCEPT ![j] = DoneJob]
         ELSE /\ jobs' = [jobs EXCEPT ![j].pc = "json",
                                      ![j].response = NoResponse,
                                      ![j].arrivedAfter = ArrivedAmongLater(j)]
              /\ UNCHANGED <<display, currentTranscription, resultText, resultError>>
  /\ UNCHANGED <<uploadedFiles, fileListItems, language, resultTimers, progressIntervals,
                 windowProgressInterval, progressWidth, faults, recVars, banners, pageVars, logVars>>

\* response.json() of job j settles: it rejects (caught), or resolves with
\* the data, and then setProgress(100) and setTimeout(..., 500).
JsonSettles(j) ==
  /\ jobs[j].pc = "json"
  /\ \E d \in JsonOutcomes :
       IF d.rejected
       THEN /\ PresentError(d.message)
            /\ jobs' = [jobs EXCEPT ![j] = DoneJob]
            /\ UNCHANGED <<progressWidth, resultTimers>>
       ELSE /\ jobs' = [jobs EXCEPT ![j].pc = "timer", ![j].data = d]
            /\ progressWidth' = 100
            /\ resultTimers' = Append(resultTimers, j)
            /\ UNCHANGED <<display, currentTranscription, resultText, resultError>>
  /\ UNCHANGED <<uploadedFiles, fileListItems, language, progressIntervals,
                 windowProgressInterval, faults, recVars, banners, pageVars, logVars>>

\* The 500 ms timer of a job fires (timers of equal delay fire in the order
\* they were set): hideProgress(), then showResult(data.text || ..., false).
\* Reading data.text of null throws, outside any try block.
ResultTimerFires ==
  /\ resultTimers # <<>>
  /\ LET j == Head(resultTimers)
         data == jobs[j].data
     IN  /\ resultTimers' = Tail(resultTimers)
         /\ jobs' = [jobs EXCEPT ![j] = DoneJob]
         /\ IF data.isNull
            THEN /\ display' = [display EXCEPT !.progressSection = FALSE]
                 /\ faults' = faults + 1
                 /\ UNCHANGED <<currentTranscription, resultText, resultError>>
            ELSE /\ display' = [display EXCEPT !.progressSection = FALSE,
                                               !.resultSection = TRUE]
                 /\ currentTranscription' = SuccessResultText(data)
                 /\ resultText' = SuccessResultText(data)
                 /\ resultError' = FALSE
                 /\ UNCHANGED faults
  /\ UNCHANGED <<uploadedFiles, fileListItems, language, progressIntervals,
                 windowProgressInterval, progressWidth, recVars, banners, pageVars, logVars>>

\* ------------------------------------------------------------------ copy

\* The label logic both paths of copyToClipboard end with: the label on the
\* control is kept as originalText, the confirmation is shown, and a 2 s
\* timer is set that puts originalText back.
ConfirmCopy ==
  /\ copyTimers' = Append(copyTimers, copyBtnText)
  /\ copyBtnText' = CopiedLabel

\* A click on the copy control: navigator.clipboard.writeText is called with
\* the text held at that moment.
CopyClick ==
  /\ Len(copyCalls) < MaxCopies
  /\ copyCalls' = Append(copyCalls, [pending |-> TRUE, text |-> currentTranscription])
  /\ UNCHANGED <<jobVars, recVars, banners, display, audioFileFiles, dragStore,
                 dragover, health, logVars, copyBtnText, copyTimers, clipboard>>

\* writeText of call c resolves: the text is on the clipboard; the then block.
WriteTextResolves(c) ==
  /\ copyCalls[c].pending
  /\ copyCalls' = [copyCalls EXCEPT ![c].pending = FALSE]
  /\ clipboard' = copyCalls[c].text
  /\ ConfirmCopy
  /\ UNCHANGED <<jobVars, recVars, banners, display, audioFileFiles, dragStore,
                 dragover, health, logVars>>

\* writeText of call c rejects: the catch block copies the text held now
\* through a textarea and execCommand('copy'), which may do nothing.
WriteTextRejects(c) ==
  /\ copyCalls[c].pending
  /\ copyCalls' = [copyCalls EXCEPT ![c].pending = FALSE]
  /\ \E copied \in BOOLEAN :
       clipboard' = IF copied THEN currentTranscription ELSE clipboard
  /\ ConfirmCopy
  /\ UNCHANGED <<jobVars, recVars, banners, display, audioFileFiles, dragStore,
                 dragover, health, logVars>>

\* The 2 s timer of the oldest confirmation fires.
CopyTimerFires ==
  /\ copyTimers # <<>>
  /\ copyBtnText' = Head(copyTimers)
  /\ copyTimers' = Tail(copyTimers)
  /\ UNCHANGED <<jobVars, recVars, banners, display, audioFileFiles, dragStore,
                 dragover, health, logVars, copyCalls, clipboard>>

\* ---------------------------------------------------------- health probe

\* The service answers GET /health, or the network fails the request: the
\* answer is on its way to the client.
HealthAnswers ==
  /\ health.pc = "fetch"
  /\ health.response = NoResponse
  /\ \E r \in FetchOutcomes : health' = [health EXCEPT !.response = r]
  /\ UNCHANGED <<jobVars, recVars, banners, display, audioFileFiles, dragStore,
                 dragover, logVars, copyVars>>

\* A probe whose failure also empties the queue and the displayed list.
HealthSettlesEmptiesQueue ==
  /\ health.pc = "fetch"
  /\ health.response # NoResponse
  /\ health' = [pc |-> "done", response |-> NoResponse]
  /\ IF health.response.rejected
     THEN /\ ShowError(HealthWarning)
          /\ uploadedFiles' = <<>>
          /\ fileListItems' = <<>>
     ELSE UNCHANGED <<banners, uploadedFiles, fileListItems>>
  /\ UNCHANGED <<language, jobs, resultTimers, progressIntervals,
                 windowProgressInterval, progressWidth, currentTranscription,
                 resultText, resultError, faults, recVars, display,
                 audioFileFiles, dragStore, dragover, logVars, copyVars>>

\* The fetch of checkServerHealth settles: a rejection ends in the catch
\* block, which shows the banner; a response is logged when it is ok and
\* otherwise ignored.
HealthSettles ==
  /\ health.pc = "fetch"
  /\ health.response # NoResponse
  /\ health' = [pc |-> "done", response |-> NoResponse]
  /\ IF health.response.rejected THEN ShowError(HealthWarning)
     ELSE UNCHANGED banners
  /\ UNCHANGED <<jobVars, recVars, display, audioFileFiles, dragStore,
                 dragover, logVars, copyVars>>

\* ------------------------------------------------------ recording session

MicrophoneMessage ==
  <<"Could not access microphone. Please allow microphone access and try again.">>

\* A startRecording call that has not got its stream yet.  pc is where the
\* call is ("prompt": at the await of getUserMedia, "started": it ran the
\* try block to its end, "failed": it ended in the catch block); stream is
\* its MediaStream ("none", "live", or "ended" once its tracks have
\* stopped); trackStops counts the track.stop() calls made on it; rec is the
\* state of its MediaRecorder ("none" before it is constructed); events are
\* the recorder events the platform has queued.  cancelled is history that
\* no action reads: cancelRecording has run since the stream was acquired.
NewCall == [pc |-> "prompt", stream |-> "none", trackStops |-> 0,
            rec |-> "none", events |-> <<>>, cancelled |-> FALSE]

\* Is the session's recorder recording?  (mediaRecorder && state !== 'inactive')
RecorderActive ==
  mediaRecorder # 0 /\ calls[mediaRecorder].rec = "recording"

\* mediaRecorder.stop() on the calls given: the recorder becomes inactive at
\* once and the platform queues its dataavailable and stop events.
StopRecorder(cs) ==
  IF RecorderActive
  THEN [cs EXCEPT ![mediaRecorder].rec = "inactive",
                  ![mediaRecorder].events = <<"dataavailable", "stop">>]
  ELSE cs

\* showRecordingSection
ShowRecordingSection ==
  /\ display' = [display EXCEPT !.recordingSection = TRUE, !.fileList = FALSE]
  /\ display' # display
  /\ UNCHANGED <<jobVars, pageVars, logVars, recVars, banners>>

\* hideRecordingSection, on the display given
HideRecordingSection(disp) ==
  [disp EXCEPT !.recordingSection = FALSE, !.fileList = TRUE]

\* A click on the start control: startRecording up to its await of getUserMedia.
StartRecordingClick ==
  /\ display.startRecord
  /\ Len(calls) < MaxStarts
  /\ calls' = Append(calls, NewCall)
  /\ UNCHANGED <<jobVars, pageVars, logVars, mediaRecorder, recordedChunks, recordingTimer,
                 recTimers, recordingStartTime, audioSrc, banners, display>>

\* getUserMedia of call k rejects (permission denied, no device): the catch block.
GetUserMediaRejects(k) ==
  /\ calls[k].pc = "prompt"
  /\ calls' = [calls EXCEPT ![k].pc = "failed"]
  /\ ShowError(MicrophoneMessage)
  /\ UNCHANGED <<jobVars, pageVars, logVars, mediaRecorder, recordedChunks, recordingTimer,
                 recTimers, recordingStartTime, audioSrc, display>>

\* getUserMedia of call k resolves with a stream and the rest of the try
\* block runs to its end.
StartRecordingProceeds(k) ==
  /\ calls[k].pc = "prompt"
  /\ recordedChunks' = <<>>
  /\ mediaRecorder' = k
  /\ calls' = [calls EXCEPT ![k].pc = "started", ![k].stream = "live",
                            ![k].rec = "recording"]
  /\ recordingStartTime' = k
  /\ display' = [display EXCEPT !.startRecord = FALSE, !.stopRecord = TRUE,
                                !.recordingTimer = TRUE]
  /\ recordingTimer' = k
  /\ recTimers' = recTimers \cup {k}
  /\ UNCHANGED <<jobVars, pageVars, logVars, audioSrc, banners>>

\* getUserMedia of call k resolves with a stream, and `new MediaRecorder`
\* throws (a platform without it): recordedChunks is already reset, the
\* catch block shows the banner, and nothing stops the stream's tracks.
StartRecordingConstructorThrows(k) ==
  /\ calls[k].pc = "prompt"
  /\ recordedChunks' = <<>>
  /\ calls' = [calls EXCEPT ![k].pc = "failed", ![k].stream = "live"]
  /\ ShowError(MicrophoneMessage)
  /\ UNCHANGED <<jobVars, pageVars, logVars, mediaRecorder, recordingTimer, recTimers,
                 recordingStartTime, audioSrc, display>>

\* getUserMedia of call k resolves with a stream, and mediaRecorder.start()
\* throws (NotSupportedError, SecurityError): the recorder is already
\* assigned and stays inactive.
StartRecordingStartThrows(k) ==
  /\ calls[k].pc = "prompt"
  /\ recordedChunks' = <<>>
  /\ mediaRecorder' = k
  /\ calls' = [calls EXCEPT ![k].pc = "failed", ![k].stream = "live",
                            ![k].rec = "inactive"]
  /\ ShowError(MicrophoneMessage)
  /\ UNCHANGED <<jobVars, pageVars, logVars, recordingTimer, recTimers, recordingStartTime,
                 audioSrc, display>>

\* stopRecording
StopRecordingClick ==
  /\ display.stopRecord
  /\ calls' = StopRecorder(calls)
  /\ recTimers' = recTimers \ {recordingTimer}
  /\ recordingTimer' = 0
  /\ display' = [display EXCEPT !.startRecord = TRUE, !.stopRecord = FALSE,
                                !.recordingTimer = FALSE]
  /\ UNCHANGED <<jobVars, pageVars, logVars, mediaRecorder, recordedChunks, recordingStartTime,
                 audioSrc, banners>>

\* cancelRecording
CancelRecording ==
  /\ calls' = [k \in DOMAIN calls |->
                 IF calls[k].stream # "none"
                 THEN [StopRecorder(calls)[k] EXCEPT !.cancelled = TRUE]
                 ELSE calls[k]]
  /\ recTimers' = recTimers \ {recordingTimer}
  /\ recordingTimer' = 0
  /\ display' = HideRecordingSection(
                  [display EXCEPT !.startRecord = TRUE, !.stopRecord = FALSE,
                                  !.playRecord = FALSE, !.useRecord = FALSE,
                                  !.recordingTimer = FALSE,
                                  !.recordedAudio = FALSE])
  /\ recordedChunks' = <<>>
  /\ recordingStartTime' = 0
  /\ UNCHANGED <<jobVars, pageVars, logVars, mediaRecorder, audioSrc, banners>>

\* The platform delivers the next queued event of recorder k.
\* ondataavailable pushes the blob when it is not empty; onstop builds the
\* playback blob from recordedChunks, shows the review controls and stops
\* the tracks of the stream of call k.
RecorderDataAvailable(k) ==
  /\ calls[k].events # <<>>
  /\ Head(calls[k].events) = "dataavailable"
  /\ calls' = [calls EXCEPT ![k].events = Tail(@)]
  /\ \E size \in {0, 1} :
       recordedChunks' = IF size > 0 THEN Append(recordedChunks, k)
                         ELSE recordedChunks
  /\ UNCHANGED <<jobVars, pageVars, logVars, mediaRecorder, recordingTimer, recTimers,
                 recordingStartTime, audioSrc, banners, display>>

RecorderStop(k) ==
  /\ calls[k].events # <<>>
  /\ Head(calls[k].events) = "stop"
  /\ calls' = [calls EXCEPT ![k].events = Tail(@), ![k].stream = "ended",
                            ![k].trackStops = @ + 1]
  /\ audioSrc' = recordedChunks
  /\ display' = [display EXCEPT !.recordedAudio = TRUE, !.playRecord = TRUE,
                                !.useRecord = TRUE]
  /\ UNCHANGED <<jobVars, pageVars, logVars, mediaRecorder, recordedChunks, recordingTimer,
                 recTimers, recordingStartTime, banners>>

\* The capture device fails while recorder k records (the device is
\* unplugged): its tracks end, the platform makes the recorder inactive and
\* queues its dataavailable and stop events.
DeviceError(k) ==
  /\ calls[k].rec = "recording"
  /\ calls' = [calls EXCEPT ![k].rec = "inactive", ![k].stream = "ended",
                            ![k].events = <<"dataavailable", "stop">>]
  /\ UNCHANGED <<jobVars, pageVars, logVars, mediaRecorder, recordedChunks, recordingTimer,
                 recTimers, recordingStartTime, audioSrc, banners, display>>

\* new File([blob], `recording-${Date.now()}.webm`, { type: 'audio/webm' })
\* over the blob of recordedChunks; a fragment counts as one byte.
RecordingFile ==
  [name |-> <<"recording-", "Date.now()", ".webm">>,
   type |-> <<"audio/", "webm">>,
   size |-> IF recordedChunks = <<>> THEN <<>> ELSE <<Len(recordedChunks)>>,
   content |-> recordedChunks]

\* A use control that puts the recording into the queue and submits nothing.
UseRecordingQueuesOnly ==
  /\ display.useRecord
  /\ triggers < MaxJobs
  /\ uploadedFiles' = <<RecordingFile>>
  /\ fileListItems' = DisplayFileList(<<RecordingFile>>)
  /\ display' = HideRecordingSection(display)
  /\ triggers' = triggers + 1
  /\ UNCHANGED <<language, jobs, resultTimers, progressIntervals,
                 windowProgressInterval, progressWidth, currentTranscription,
                 resultText, resultError, faults, recVars, banners, pageVars,
                 requests>>

\* useRecording: the recorded fragments become the only queue entry and
\* transcribeFile(0) runs up to its await.
UseRecording ==
  /\ display.useRecord
  /\ Len(jobs) < MaxJobs
  /\ LET file == RecordingFile
     IN  /\ uploadedFiles' = <<file>>
         /\ fileListItems' = DisplayFileList(<<file>>)
         /\ TranscribeFile(<<file>>, 0, HideRecordingSection(display))
  /\ triggers' = triggers + 1
  /\ UNCHANGED <<language, resultTimers, currentTranscription, resultText,
                 resultError, faults, recVars, banners, pageVars>>

NextRec ==
  \/ ShowRecordingSection
  \/ StartRecordingClick
  \/ \E k \in 1 .. MaxStarts : k <= Len(calls) /\ GetUserMediaRejects(k)
  \/ \E k \in 1 .. MaxStarts : k <= Len(calls) /\ StartRecordingProceeds(k)
  \/ \E k \in 1 .. MaxStarts : k <= Len(calls) /\ StartRecordingConstructorThrows(k)
  \/ \E k \in 1 .. MaxStarts : k <= Len(calls) /\ StartRecordingStartThrows(k)
  \/ StopRecordingClick
  \/ CancelRecording
  \/ \E k \in 1 .. MaxStarts : k <= Len(calls) /\ RecorderDataAvailable(k)
  \/ \E k \in 1 .. MaxStarts : k <= Len(calls) /\ RecorderStop(k)
  \/ \E k \in 1 .. MaxStarts : k <= Len(calls) /\ DeviceError(k)
  \/ UseRecording
  \/ BannerTimerFires

\* The picker used for one file at a time.
PickOne == HandleFileSelect /\ Len(audioFileFiles') = 1

\* Recording without failures: every getUserMedia is granted and no device
\* fails.
NextUse ==
  \/ ShowRecordingSection
  \/ StartRecordingClick
  \/ \E k \in 1 .. MaxStarts : k <= Len(calls) /\ StartRecordingProceeds(k)
  \/ StopRecordingClick
  \/ CancelRecording
  \/ \E k \in 1 .. MaxStarts : k <= Len(calls) /\ RecorderDataAvailable(k)
  \/ \E k \in 1 .. MaxStarts : k <= Len(calls) /\ RecorderStop(k)
  \/ UseRecording

\* Submitting: the selector, the picker and the Transcribe buttons.
NextSubmit ==
  \/ SelectLanguage
  \/ HandleFileSelect
  \/ TranscribeClick

\* A job's way from the request to the presented result.
NextResponse ==
  \/ \E j \in 1 .. MaxJobs : j <= Len(jobs) /\ ServiceAnswers(j)
  \/ \E j \in 1 .. MaxJobs : j <= Len(jobs) /\ FetchSettles(j)
  \/ \E j \in 1 .. MaxJobs : j <= Len(jobs) /\ JsonSettles(j)
  \/ ResultTimerFires

NextJob ==
  \/ PickOne
  \/ TranscribeClick
  \/ NextResponse

\* Taking files in: the picker and drag and drop.
NextIngest ==
  \/ HandleFileSelect
  \/ DragEnter
  \/ HandleDragOver
  \/ HandleDragLeave
  \/ HandleDrop
  \/ BannerTimerFires

\* The startup health probe, next to single picks and to drops.
NextHealth ==
  \/ HealthAnswers
  \/ HealthSettles
  \/ PickOne
  \/ DragEnter
  \/ HandleDragOver
  \/ HandleDrop
  \/ BannerTimerFires

\* The picker used for the file a.wav.
PickWav == PickOne /\ audioFileFiles'[1].name = <<"a.wav">>

\* The job with its progress estimator, on one and the same file.
NextProgress ==
  \/ PickWav
  \/ TranscribeClick
  \/ NextResponse
  \/ \E i \in 1 .. MaxJobs : i <= Len(progressIntervals) /\ ProgressTick(i)

\* The copy control.
NextCopy ==
  \/ CopyClick
  \/ \E c \in 1 .. MaxCopies : c <= Len(copyCalls) /\ WriteTextResolves(c)
  \/ \E c \in 1 .. MaxCopies : c <= Len(copyCalls) /\ WriteTextRejects(c)
  \/ CopyTimerFires

Next ==
  \/ NextSubmit \/ NextResponse \/ NextRec \/ NextIngest
  \/ HealthAnswers \/ HealthSettles \/ NextCopy
  \/ \E i \in 1 .. MaxJobs : i <= Len(progressIntervals) /\ ProgressTick(i)

\* The whole client.
Spec == Init /\ [][Next]_vars

\* Building and sending requests: what the selector and the queue put into
\* the request body.  No other action writes a request body.
SpecSubmit == Init /\ [][NextSubmit]_vars

\* The transcription job and the result presenter, with the selector left
\* at its initial value (the language only goes into the request body) and
\* the queue holding one file (a job reads one queue entry and nothing else
\* of the queue).
\* The recording actions touch this part of the state only through
\* useRecording, which submits a job exactly as a click on a queue entry.
SpecJob == Init /\ [][NextJob]_vars

\* The recording session alone.  The job continuations leave every
\* recording variable unchanged.
SpecRec == Init /\ [][NextRec]_vars

\* Recording, reviewing and handing over a recording, without failures.
SpecUse == Init /\ [][NextUse]_vars

\* The job slice in which every request is answered, every settled promise
\* runs its continuation and every timer that is set fires.
SpecJobFair ==
  /\ SpecJob
  /\ \A j \in 1 .. MaxJobs :
       /\ WF_vars(j <= Len(jobs) /\ ServiceAnswers(j))
       /\ WF_vars(j <= Len(jobs) /\ FetchSettles(j))
       /\ WF_vars(j <= Len(jobs) /\ JsonSettles(j))
  /\ WF_vars(ResultTimerFires)

\* The transcription job with the interval callbacks of animateProgress.
SpecProgress == Init /\ [][NextProgress]_vars

\* The copy control while results come and go.
SpecCopy == Init /\ [][NextCopy \/ NextJob]_vars

\* The upload queue and the displayed list under the picker and the drops.
SpecIngest == Init /\ [][NextIngest]_vars

\* The health probe while files are taken in and banners of other
\* operations come and go.  Every banner has its own timer, so the timer of
\* the oldest banner always fires in the end.
SpecHealth == Init /\ [][NextHealth]_vars /\ WF_vars(BannerTimerFires)

\* ======================================================== properties

\* The elements of a sequence.
Range(seq) == {seq[i] : i \in DOMAIN seq}

\* Does text hold part as a run of consecutive tokens?
Contains(text, part) ==
  \E i \in 1 .. (Len(text) + 1 - Len(part)) :
    SubSeq(text, i, i + Len(part) - 1) = part

\* The values a form-data body carries under a key.
Field(body, key) ==
  {body[i][2] : i \in {n \in DOMAIN body : body[n][1] = key}}

\* What the presenter holds: the displayed text, the error flag and the text
\* kept for copy and download.
presented == <<resultText, resultError, currentTranscription>>

\* Job j runs to its end in this step.
Resolves(j) == jobs[j].pc # "done" /\ jobs'[j].pc = "done"

\* The later-started jobs whose response had arrived before that of job j,
\* seen at the step in which job j resolves.
ArrivedBefore(j) ==
  IF jobs[j].pc = "fetch" THEN ArrivedAmongLater(j) ELSE jobs[j].arrivedAfter

\* C1 -- No stale overwrite: when job A resolves and a job B that was started
\* after A, and whose response arrived before A's, has already resolved,
\* the presented result (displayed text, error flag, text held for copy and
\* download) is not replaced by A's: it stays what it was.
NoStaleOverwrite ==
  [][\A a \in DOMAIN jobs :
       (Resolves(a) /\ \E b \in ArrivedBefore(a) : jobs[b].pc = "done")
         => UNCHANGED presented]_vars

\* The session is Idle: nothing is recording and the playback element, the
\* play and use controls and the elapsed-time display are hidden.
IdleSession ==
  /\ ~RecorderActive
  /\ ~display.recordedAudio
  /\ ~display.playRecord
  /\ ~display.useRecord
  /\ ~display.recordingTimer

\* cancelRecording has run and no startRecording has installed a recorder since.
SessionCancelled == mediaRecorder # 0 /\ calls[mediaRecorder].cancelled

\* C2 -- After cancelRecording and until the next start, the chunk buffer is
\* empty and the session is Idle, also after the recorder has delivered its
\* remaining dataavailable and stop callbacks.
CancelLeavesIdleAndEmpty ==
  SessionCancelled => (recordedChunks = <<>> /\ IdleSession)

\* C3 -- Every acquired stream is released exactly once: track.stop() is
\* never called twice on it, and once the session has been cancelled and the
\* recorder has no callback left to deliver, it has been called once.
ReleasedExactlyOnce ==
  \A k \in DOMAIN calls :
    /\ calls[k].trackStops <= 1
    /\ (calls[k].cancelled /\ calls[k].events = <<>>) => calls[k].trackStops = 1

\* C4 -- A startRecording that gets its stream while a recording is active is
\* rejected: the chunk buffer, the recorder and the elapsed-time timer stay
\* as they are and no second recording begins.
StartWhileActiveRejected ==
  [][\A k \in DOMAIN calls :
       (calls[k].pc = "prompt" /\ calls'[k].pc # "prompt" /\ RecorderActive)
         => /\ UNCHANGED <<recordedChunks, mediaRecorder, recordingTimer, recTimers>>
            /\ calls'[k].rec # "recording"]_vars

\* C5 -- The microphone is exclusive and released on every exit path: at
\* most one acquired stream is live, and a live stream belongs to a recorder
\* that is recording or whose stop callback is still to be delivered.
MicrophoneExclusiveAndReleased ==
  /\ Cardinality({k \in DOMAIN calls : calls[k].stream = "live"}) <= 1
  /\ \A k \in DOMAIN calls :
       calls[k].stream = "live"
         => (calls[k].rec = "recording" \/ calls[k].events # <<>>)

\* C6 -- The body of every request submitted carries the file of the chosen
\* queue entry and response_format = "json", and carries a language field,
\* holding the selected language, exactly when the selection is not "auto".
LanguageFieldIffNotAuto ==
  [][Len(jobs') = Len(jobs) + 1
       => LET body == jobs'[Len(jobs')].body
          IN  /\ Field(body, "language")
                   = (IF language = "auto" THEN {} ELSE {language})
              /\ Field(body, "response_format") = {"json"}
              /\ Cardinality(Field(body, "file")) = 1
              /\ Field(body, "file") \subseteq Range(uploadedFiles')
              /\ Len(body) = (IF language = "auto" THEN 2 ELSE 3)]_vars

\* Two requests are on their way: one submitted under "auto", without a
\* language field, and one submitted under "zh", with language = "zh".
LanguageFieldWitness ==
  \E a, b \in DOMAIN jobs :
    /\ jobs[a].selectedLanguage = "auto" /\ jobs[a].pc = "fetch"
    /\ Field(jobs[a].body, "language") = {}
    /\ Field(jobs[a].body, "response_format") = {"json"}
    /\ jobs[b].selectedLanguage = "zh" /\ jobs[b].pc = "fetch"
    /\ Field(jobs[b].body, "language") = {"zh"}

\* C7 -- A startRecording that fails shows the microphone banner and leaves
\* the session state, the chunk buffer, the recorder, the start time and the
\* timer as they were, and holds no stream.
FailedStartLeavesNoTrace ==
  [][\A k \in DOMAIN calls :
       (calls[k].pc = "prompt" /\ calls'[k].pc = "failed")
         => /\ banners' = Append(banners, MicrophoneMessage)
            /\ UNCHANGED <<mediaRecorder, recordedChunks, recordingTimer,
                           recTimers, recordingStartTime, display>>
            /\ calls'[k].stream # "live"]_vars

\* C8 -- When the answer to a job's request is a response whose status is
\* outside 200..299, the job ends in that step with a presented result that
\* is flagged as an error and whose text holds the status code and the
\* status text; the progress indicator is hidden and no success
\* presentation is left pending for the job.
ServerErrorPresented ==
  [][\A j \in DOMAIN jobs :
       LET r == jobs[j].response
       IN  (jobs[j].pc = "fetch" /\ jobs'[j] # jobs[j] /\ r # NoResponse
              /\ ~r.rejected /\ (r.status < 200 \/ r.status > 299))
             => /\ jobs'[j].pc = "done"
                /\ resultError'
                /\ display'.resultSection
                /\ ~display'.progressSection
                /\ Contains(resultText', Decimal(r.status))
                /\ Contains(resultText', <<r.statusText>>)
                /\ currentTranscription' = resultText'
                /\ j \notin Range(resultTimers')]_vars

\* The error result of an HTTP 500 answer is on screen.
ServerErrorWitness ==
  /\ resultError
  /\ display.resultSection
  /\ ~display.progressSection
  /\ Contains(resultText, <<"5", "0", "0">>)
  /\ Contains(resultText, <<"Internal Server Error">>)
  /\ \E j \in DOMAIN jobs : jobs[j].pc = "done"

\* C9 -- When the 500 ms timer of a successful job fires, the presented
\* result is not flagged as an error, and its text is the response's text
\* field whenever the response has the field (the empty string included) and
\* the placeholder exactly when the field is absent.
SuccessTextIsField ==
  [][(resultTimers # <<>> /\ resultTimers' = Tail(resultTimers))
       => LET data == jobs[Head(resultTimers)].data
          IN  /\ ~resultError'
              /\ display'.resultSection
              /\ resultText' = (IF data.hasText THEN data.text ELSE Placeholder)
              /\ currentTranscription' = resultText']_vars

\* C10 -- A rejected fetch and a rejected response.json() are caught in the
\* job: in the same step it presents an error result made of the failure
\* message and the hint naming the base address; and no step raises an
\* uncaught exception or ends a job without presenting a result.
FailuresCaughtAndPresented ==
  [][/\ \A j \in DOMAIN jobs :
          /\ (jobs[j].pc = "fetch" /\ jobs[j].response.rejected /\ jobs'[j] # jobs[j])
               => /\ jobs'[j].pc = "done"
                  /\ resultError'
                  /\ resultText' = <<"Error: ">> \o jobs[j].response.message
                       \o <<"\n\nMake sure the Whisper server is running on ", API_BASE_URL>>
          /\ (jobs[j].pc = "json" /\ jobs'[j].pc = "done")
               => /\ resultError'
                  /\ Contains(resultText', <<API_BASE_URL>>)
          /\ Resolves(j) => (display'.resultSection /\ ~display'.progressSection)
     /\ faults' = faults]_vars

\* C11 -- A use of the recording replaces the upload queue by exactly one
\* entry, a file with the synthetic timestamped name that wraps the recorded
\* fragments, and in the same step submits one job for that entry: exactly
\* one inference request is issued, carrying that file, and no other job is
\* touched.
UseRecordingSubmitsOne ==
  [][triggers' = triggers + 1
       => /\ Len(uploadedFiles') = 1
          /\ uploadedFiles'[1].name = <<"recording-", "Date.now()", ".webm">>
          /\ uploadedFiles'[1].content = recordedChunks
          /\ Len(fileListItems') = 1
          /\ fileListItems'[1].name = uploadedFiles'[1].name
          /\ Len(jobs') = Len(jobs) + 1
          /\ jobs'[Len(jobs')].pc = "fetch"
          /\ Field(jobs'[Len(jobs')].body, "file") = {uploadedFiles'[1]}
          /\ requests' = requests + 1
          /\ \A j \in DOMAIN jobs : jobs'[j] = jobs[j]]_vars

\* A recording with a fragment has been handed over: it is the only queue
\* entry and the one request sent carries it.
UseRecordingWitness ==
  /\ requests = 1
  /\ Len(uploadedFiles) = 1
  /\ uploadedFiles[1].content # <<>>
  /\ \E j \in DOMAIN jobs :
       jobs[j].pc = "fetch" /\ Field(jobs[j].body, "file") = {uploadedFiles[1]}

\* The session is Stopped: its recorder has stopped and has delivered its
\* callbacks.
StoppedSession ==
  /\ mediaRecorder # 0
  /\ calls[mediaRecorder].rec = "inactive"
  /\ calls[mediaRecorder].events = <<>>

\* C12 -- A recording is accepted only while the session is Stopped, never
\* while it is Idle or Recording, and the file handed over holds fragments
\* of that one session only.
AcceptedOnlyWhenStopped ==
  [][triggers' = triggers + 1
       => /\ StoppedSession
          /\ ~IdleSession
          /\ \A n \in DOMAIN uploadedFiles'[1].content :
               uploadedFiles'[1].content[n] = mediaRecorder]_vars

\* C13 -- The hand-over destroys the session: after a use of the recording
\* the chunk buffer is empty and the session is Idle (the use control
\* included, so that the same recording cannot be accepted again).
HandOverDestroysSession ==
  [][triggers' = triggers + 1 => (recordedChunks' = <<>> /\ IdleSession')]_vars

\* C14 -- The health probe shows a warning that names the base address if
\* and only if the service is unreachable, where reachable means a response
\* with a status in 200..299: a network failure and a response outside that
\* range both add the warning banner, a 2xx response adds none.
WarningIffUnreachable ==
  [][(health.pc = "fetch" /\ health'.pc = "done")
       => LET r == health.response
          IN  IF r.rejected \/ r.status < 200 \/ r.status > 299
              THEN /\ Len(banners') = Len(banners) + 1
                   /\ Contains(banners'[Len(banners')], <<API_BASE_URL>>)
              ELSE banners' = banners]_vars

\* C15 -- A failed health probe changes nothing but the banners: the queue,
\* the displayed list, the result, the progress display, the jobs, the
\* recording session and the page's inputs stay as they are, the banners
\* already shown stay, and at most the warning is added.  The warning is
\* removed in the end by its own timer, and its removal leaves the other
\* banners on screen.
FailedProbeOnlyBanner ==
  /\ [][(health.pc = "fetch" /\ health'.pc = "done")
          => /\ UNCHANGED <<jobVars, recVars, display, audioFileFiles, dragStore,
                            dragover, logVars, copyVars>>
             /\ banners' \in {banners, Append(banners, HealthWarning)}
             /\ health.response.rejected => banners' = Append(banners, HealthWarning)]_vars
  /\ [][(HealthWarning \in Range(banners) /\ HealthWarning \notin Range(banners'))
          => (Head(banners) = HealthWarning /\ banners' = Tail(banners))]_vars
  /\ (HealthWarning \in Range(banners)) ~> (HealthWarning \notin Range(banners))

\* The probe has failed while a queue is loaded and another banner is on
\* screen: the warning is shown next to it and the queue is still there.
FailedProbeWitness ==
  /\ health.pc = "done"
  /\ HealthWarning \in Range(banners)
  /\ NoAudioMessage \in Range(banners)
  /\ uploadedFiles # <<>>
  /\ fileListItems = DisplayFileList(uploadedFiles)

\* The drag of this step ends in a drop.
Dropped == dragStore.active /\ ~dragStore'.active

\* The audio files among the files dragged.
DraggedAudio == {f \in Range(dragStore.files) : f.type[1] = "audio/"}

\* Where a file stands in a list that holds it once.
Position(files, f) == CHOOSE n \in DOMAIN files : files[n] = f

\* The displayed list shows the queue, entry by entry.
ListShowsQueue(items, queue) ==
  /\ Len(items) = Len(queue)
  /\ \A n \in DOMAIN queue : items[n].name = queue[n].name /\ items[n].index = n - 1

\* C16 -- A drop none of whose files has a type starting with "audio/" (an
\* empty drop included) shows the no-audio warning and leaves the upload
\* queue and the displayed file list exactly as they were.
NoAudioDropRejected ==
  [][(Dropped /\ DraggedAudio = {})
       => /\ banners' = Append(banners, NoAudioMessage)
          /\ UNCHANGED <<uploadedFiles, fileListItems>>]_vars

\* A drop without audio files has been refused while a queue of two files
\* was loaded: the warning is on screen and the queue and the list are there.
NoAudioDropWitness ==
  /\ NoAudioMessage \in Range(banners)
  /\ ~dragStore.active
  /\ Len(uploadedFiles) = 2
  /\ ListShowsQueue(fileListItems, uploadedFiles)

\* C17 -- After an accepted ingest the queue is exactly the new batch, in
\* input order, with no entry of the previous queue kept, and the list
\* shows it: a drop with audio files yields the subsequence of the dropped
\* files whose type starts with "audio/"; a picker selection yields the
\* whole selection, unfiltered; an empty picker selection leaves the queue
\* and the displayed list unchanged.
QueueIsNewBatch ==
  [][/\ (Dropped /\ DraggedAudio # {})
          => /\ Range(uploadedFiles') = DraggedAudio
             /\ Len(uploadedFiles') = Cardinality(DraggedAudio)
             /\ \A m, n \in DOMAIN uploadedFiles' :
                  m < n => Position(dragStore.files, uploadedFiles'[m])
                             < Position(dragStore.files, uploadedFiles'[n])
             /\ ListShowsQueue(fileListItems', uploadedFiles')
     /\ (audioFileFiles' # audioFileFiles /\ audioFileFiles' # <<>>)
          => /\ uploadedFiles' = audioFileFiles'
             /\ ListShowsQueue(fileListItems', uploadedFiles')
     /\ (audioFileFiles' # audioFileFiles /\ audioFileFiles' = <<>>)
          => UNCHANGED <<uploadedFiles, fileListItems>>]_vars

\* The picker's selection held a file that is not audio and went into the
\* queue whole; then a drop of three files replaced it by its two audio
\* files, in the order they were dropped in.
QueueIsNewBatchWitness ==
  /\ \E f \in Range(audioFileFiles) : f.type[1] # "audio/"
  /\ Len(uploadedFiles) = 2
  /\ uploadedFiles[1].name = <<"b.mp3">>
  /\ uploadedFiles[2].name = <<"a.wav">>
  /\ ListShowsQueue(fileListItems, uploadedFiles)
  /\ NoAudioMessage \notin Range(banners)

\* C18 -- No automatic retries: a request is sent only in the step of an
\* explicit trigger (a Transcribe click or a use of the recording), one
\* request per trigger, for the job that the trigger starts; the requests
\* sent never outnumber the triggers; and the step in which a job ends, in
\* failure or not, sends nothing, nor does any later step before the next
\* trigger.
NoAutomaticRetry ==
  [][/\ requests' # requests
          => (requests' = requests + 1 /\ triggers' = triggers + 1)
     /\ requests' <= triggers'
     /\ Len(jobs') - Len(jobs) = requests' - requests
     /\ \A j \in DOMAIN jobs :
          /\ jobs'[j].body # jobs[j].body => jobs'[j].body = <<>>
          /\ jobs[j].pc # "fetch" => jobs'[j].pc # "fetch"
          /\ Resolves(j) => requests' = requests]_vars

\* A job has failed on a rejected fetch, its error is presented, and the
\* one request sent is the one of the one click.
NoAutomaticRetryWitness ==
  /\ triggers = 1
  /\ requests = 1
  /\ Len(jobs) = 1
  /\ jobs[1].pc = "done"
  /\ resultError
  /\ Contains(resultText, <<"Failed to fetch">>)

\* C19 -- The text that copy and download export (currentTranscription, which
\* both read at the moment of the call) is the text of the result presented
\* by the job that completed last: the step in which a job completes makes
\* it the text that job presents, an error text for a failure and the
\* response's text or the placeholder for a success; every other step
\* (starting a job, hiding the result, a change of the queue) leaves it as
\* it is; and it is empty while no job has completed.
ExportedTextIsLastResult ==
  [][/\ \A j \in DOMAIN jobs :
          Resolves(j)
            => /\ currentTranscription' = resultText'
               /\ display'.resultSection
               /\ IF jobs[j].pc = "timer"
                  THEN LET data == jobs[j].data
                       IN  currentTranscription'
                             = (IF data.hasText /\ data.text # <<>> THEN data.text
                                ELSE Placeholder)
                  ELSE /\ SubSeq(currentTranscription', 1, 1) = <<"Error: ">>
                       /\ jobs[j].pc = "fetch"
                            => Contains(currentTranscription',
                                        IF jobs[j].response.rejected
                                        THEN jobs[j].response.message
                                        ELSE Decimal(jobs[j].response.status))
     /\ (\A j \in DOMAIN jobs : ~Resolves(j))
          => currentTranscription' = currentTranscription
     /\ (\A j \in DOMAIN jobs' : jobs'[j].pc # "done")
          => currentTranscription' = <<>>]_vars

\* The units the size labels may carry, smallest first.
Units == <<"Bytes", "KB", "MB", "GB">>

\* C20 -- Every size label shown is "0 Bytes" exactly when the size is 0;
\* for a size b > 0 it ends in the unit u of Bytes, KB, MB, GB with
\* 1 <= b / 1024^u < 1024 (b has u + 1 digits in base 1024), and in GB when
\* b is 1024^4 or more; and 2,048,000 bytes are labelled "1.95 MB".
SizeLabelsAsSpecified ==
  \A n \in DOMAIN fileListItems :
    LET b == uploadedFiles[n].size
        label == fileListItems[n].size
    IN  /\ (label = <<"0", " ", "Bytes">>) <=> (b = <<>>)
        /\ b # <<>> => /\ label[Len(label)] = Units[IF Len(b) < 4 THEN Len(b) ELSE 4]
                       /\ label[Len(label) - 1] = " "
        /\ b = <<1, 977, 0>> => label = <<"1", ".", "9", "5", " ", "MB">>

\* C25 -- The copy confirmation is transient on both paths: the step that
\* completes a copy shows the confirmation, and once every copy has
\* completed and every 2 s timer has fired (2 s after the last copy), the
\* label of the copy control is the original label again.
CopyConfirmationTransient ==
  [][/\ Len(copyTimers') > Len(copyTimers) => copyBtnText' = CopiedLabel
     /\ (copyTimers' = <<>> /\ \A c \in DOMAIN copyCalls' : ~copyCalls'[c].pending)
          => copyBtnText' = CopyLabel]_vars

\* The animateProgress intervals that are set.
ActiveProgressTimers == {i \in DOMAIN progressIntervals : progressIntervals[i].set}

\* The response of job j is still pending.
Pending(j) == jobs[j].pc \in {"fetch", "json"}

\* C21 -- The progress timer of a job is torn down on every resolution path:
\* it is not active once the job's response has resolved (successfully or
\* in failure) or a newer job has been submitted; so at most one progress
\* timer is active, and none when no job is pending.
ProgressTimerTornDown ==
  /\ \A j \in DOMAIN jobs :
       (~Pending(j) \/ j < Len(jobs)) => j \notin ActiveProgressTimers
  /\ Cardinality(ActiveProgressTimers) <= 1
  /\ (\A j \in DOMAIN jobs : ~Pending(j)) => ActiveProgressTimers = {}

\* C22 -- The displayed progress is within 0..100 in every state; it is 0
\* when a job is submitted; while the response of the newest job is pending
\* it stays within 0..90 and does not decrease; it becomes 100 in the step
\* in which a successful response has been read; and from then on it stays
\* 100 for as long as the progress indicator is shown and no job is
\* submitted.
ProgressMonotone ==
  [][/\ progressWidth' \in 0 .. 100
     /\ Len(jobs') > Len(jobs) => progressWidth' = 0
     /\ (jobs # <<>> /\ Len(jobs') = Len(jobs) /\ Pending(Len(jobs))
           /\ jobs'[Len(jobs)].pc # "timer")
          => (progressWidth' <= 90 /\ progressWidth' >= progressWidth)
     /\ \A j \in DOMAIN jobs :
          (jobs[j].pc = "json" /\ jobs'[j].pc = "timer") => progressWidth' = 100
     /\ (progressWidth = 100 /\ display'.progressSection /\ Len(jobs') = Len(jobs))
          => progressWidth' = 100]_vars

\* C23 -- At most one transcription job is in flight: no two requests are
\* outstanding together.
OneJobInFlight ==
  Cardinality({j \in DOMAIN jobs : jobs[j].pc = "fetch"}) <= 1

\* C26 -- While the most recently submitted job is pending, the progress
\* indicator is shown and no result is displayed.
ProgressWhileNewestPending ==
  (jobs # <<>> /\ Pending(Len(jobs)))
    => (display.progressSection /\ ~display.resultSection)

\* A result is presented: the progress indicator is hidden and the result
\* section is shown.
Presented == ~display.progressSection /\ display.resultSection

\* C27 -- Every job reaches presentation: when requests get answered and
\* timers fire, a state with an unresolved job leads to a state in which
\* the progress indicator is hidden and a result is displayed, and that
\* state lasts until the next submission.
EveryJobPresented ==
  /\ (\E j \in DOMAIN jobs : jobs[j].pc # "done") ~> Presented
  /\ [][(Presented /\ Len(jobs') = Len(jobs)) => Presented']_vars

\* The stop callback of recorder k runs in this step.
StopProcessed(k) ==
  /\ calls[k].events # <<>>
  /\ Head(calls[k].events) = "stop"
  /\ calls'[k].events = Tail(calls[k].events)

\* C24 -- When the stop callback of a recording that was stopped, not
\* cancelled, has run, no elapsed-time timer is active, the stream of the
\* recording is released, the chunk buffer holds the fragments of that
\* recording, untouched by the step, and the recording is available for
\* playback and for hand-off.
StopLeavesRecordingReady ==
  [][\A k \in DOMAIN calls :
       (StopProcessed(k) /\ ~calls[k].cancelled)
         => /\ recTimers' = {}
            /\ recordingTimer' = 0
            /\ calls'[k].stream = "ended"
            /\ recordedChunks' = recordedChunks
            /\ \A n \in DOMAIN recordedChunks : recordedChunks[n] = k
            /\ audioSrc' = recordedChunks
            /\ display'.recordedAudio /\ display'.playRecord /\ display'.useRecord]_vars

\* C28 -- The chunk buffer holds fragments of the current recorder only:
\* no fragment of an earlier recorder is in the buffer of a later session,
\* and after a cancel the buffer stays empty until the next start.
ChunksOfCurrentSession ==
  /\ \A n \in DOMAIN recordedChunks : recordedChunks[n] = mediaRecorder
  /\ (mediaRecorder # 0 /\ calls[mediaRecorder].cancelled) => recordedChunks = <<>>

\* C29 -- An elapsed-time timer is active exactly while the session is
\* Recording, and at most one is active at any time.
TimerIffRecording ==
  /\ Cardinality(recTimers) <= 1
  /\ (recTimers # {}) <=> RecorderActive

====
